---- MODULE Spec2Model ----
(***************************************************************************)
(* A model of yt_series_download.py: the naming policy, the locator of an  *)
(* existing artifact, the re-download decision and the main loop over the  *)
(* catalog rows.                                                           *)
(*                                                                         *)
(* Strings are sequences of one-character strings.  File names are         *)
(* sequences of the same kind; a path is a directory name and a file name. *)
(***************************************************************************)
EXTENDS Integers, Sequences, FiniteSets, TLC

(***************************************************************************)
(* Bounds of the model.                                                    *)
(***************************************************************************)
MaxCodeLen == 5

MaxRows == 2

MaxInitFiles == 1

MaxRuns == 2

(***************************************************************************)
(* Program constants.                                                      *)
(***************************************************************************)
REDOWNLOAD_SIZE_BYTES == 10485760

MERGE_CONTAINER == <<"m", "k", "v">>

(***************************************************************************)
(* Character classes of the regular expressions (re: \s and \d).           *)
(***************************************************************************)
Whitespace == {" ", "\t"}

Digit == {"0", "1", "2", "3", "4", "5", "6", "7", "8", "9"}

DigitVal(c) ==
    CASE c = "0" -> 0 [] c = "1" -> 1 [] c = "2" -> 2 [] c = "3" -> 3
      [] c = "4" -> 4 [] c = "5" -> 5 [] c = "6" -> 6 [] c = "7" -> 7
      [] c = "8" -> 8 [] c = "9" -> 9

DigitChar(n) ==
    CASE n = 0 -> "0" [] n = 1 -> "1" [] n = 2 -> "2" [] n = 3 -> "3"
      [] n = 4 -> "4" [] n = 5 -> "5" [] n = 6 -> "6" [] n = 7 -> "7"
      [] n = 8 -> "8" [] n = 9 -> "9"

(***************************************************************************)
(* str.strip(): drop leading and trailing whitespace.                      *)
(***************************************************************************)
RECURSIVE LStrip(_)
LStrip(s) ==
    IF s # <<>> /\ Head(s) \in Whitespace THEN LStrip(Tail(s)) ELSE s

RECURSIVE RStrip(_)
RStrip(s) ==
    IF s # <<>> /\ s[Len(s)] \in Whitespace
    THEN RStrip(SubSeq(s, 1, Len(s) - 1))
    ELSE s

Strip(s) == RStrip(LStrip(s))

(***************************************************************************)
(* int(group) of one or two digits, and the format f"{n:02d}".             *)
(***************************************************************************)
RECURSIVE IntOf(_)
IntOf(ds) ==
    IF ds = <<>> THEN 0
    ELSE 10 * IntOf(SubSeq(ds, 1, Len(ds) - 1)) + DigitVal(ds[Len(ds)])

Format02d(n) == <<DigitChar((n \div 10) % 10), DigitChar(n % 10)>>

(***************************************************************************)
(* The regular expressions of season_from_episode, matched the way the     *)
(* backtracking matcher does: greedy first, then shorter.  None is the     *)
(* matcher's "no match"; a match is the text of group 1.                   *)
(***************************************************************************)
None == <<"None">>

IsLetterS(c) == c \in {"S", "s"}

IsLetterE(c) == c \in {"E", "e"}

\* \d{n} at position i of s
DigitsAt(s, i, n) ==
    /\ i + n - 1 <= Len(s)
    /\ \A k \in i..(i + n - 1) : s[k] \in Digit

\* ^S(\d{n1})E\d{n2}$ with the IGNORECASE flag
FullMatchWith(s, n1, n2) ==
    /\ Len(s) = 2 + n1 + n2
    /\ IsLetterS(s[1])
    /\ DigitsAt(s, 2, n1)
    /\ IsLetterE(s[2 + n1])
    /\ DigitsAt(s, 3 + n1, n2)

\* re.match(r"^S(\d{1,2})E\d{1,2}$", s, flags=re.IGNORECASE)
re_match_full(s) ==
    IF FullMatchWith(s, 2, 2) \/ FullMatchWith(s, 2, 1) THEN SubSeq(s, 2, 3)
    ELSE IF FullMatchWith(s, 1, 2) \/ FullMatchWith(s, 1, 1) THEN SubSeq(s, 2, 2)
    ELSE None

\* \s* at position i of s: the position after the whitespace run
RECURSIVE SkipWhitespace(_, _)
SkipWhitespace(s, i) ==
    IF i <= Len(s) /\ s[i] \in Whitespace THEN SkipWhitespace(s, i + 1) ELSE i

\* [sS]\s*(\d{1,2}) anchored at position i
FallbackAt(s, i) ==
    IF i <= Len(s) /\ IsLetterS(s[i])
    THEN LET j == SkipWhitespace(s, i + 1)
         IN  IF DigitsAt(s, j, 2) THEN SubSeq(s, j, j + 1)
             ELSE IF DigitsAt(s, j, 1) THEN SubSeq(s, j, j)
             ELSE None
    ELSE None

\* re.search(r"[sS]\s*(\d{1,2})", s): the leftmost position that matches
RECURSIVE SearchFrom(_, _)
SearchFrom(s, i) ==
    IF i > Len(s) THEN None
    ELSE IF FallbackAt(s, i) # None THEN FallbackAt(s, i)
    ELSE SearchFrom(s, i + 1)

\* mutant: the fallback searches the letter S in upper case only
re_search_fallback_CaseSensitive(s) ==
    LET RECURSIVE From(_)
        From(i) ==
            IF i > Len(s) THEN None
            ELSE IF s[i] = "S" /\ FallbackAt(s, i) # None THEN FallbackAt(s, i)
            ELSE From(i + 1)
    IN  From(1)

re_search_fallback(s) == SearchFrom(s, 1)

season_from_episode(ep_code) ==
    IF ep_code = <<>> THEN <<"0", "0">>
    ELSE LET m == re_match_full(Strip(ep_code))
         IN  IF m # None THEN Format02d(IntOf(m))
             ELSE LET m2 == re_search_fallback(ep_code)
                  IN  IF m2 # None THEN Format02d(IntOf(m2)) ELSE <<"0", "0">>

(***************************************************************************)
(* sanitize_filename: strip, replace the reserved characters by "_",       *)
(* collapse every whitespace run to one space.                             *)
(***************************************************************************)
Reserved == {"\\", "/", "*", "?", ":", "\"", "<", ">", "|"}

ReplaceReserved(s) == [k \in 1..Len(s) |-> IF s[k] \in Reserved THEN "_" ELSE s[k]]

RECURSIVE CollapseWhitespace(_)
CollapseWhitespace(s) ==
    IF s = <<>> THEN <<>>
    ELSE IF Head(s) \in Whitespace
         THEN <<" ">> \o CollapseWhitespace(LStrip(s))
         ELSE <<Head(s)>> \o CollapseWhitespace(Tail(s))

sanitize_filename(name) == CollapseWhitespace(ReplaceReserved(Strip(name)))

(***************************************************************************)
(* Paths and the filesystem.  A path is a directory name and a file name;  *)
(* the filesystem maps the paths that exist to their kind and size.        *)
(***************************************************************************)
Path(d, n) == [dir |-> d, name |-> n]

NoPath == Path(<<>>, <<>>)

EndsWith(s, suf) ==
    /\ Len(s) >= Len(suf)
    /\ SubSeq(s, Len(s) - Len(suf) + 1, Len(s)) = suf

PartSuffix == <<".", "p", "a", "r", "t">>

\* PurePath.suffix: from the last "." that is neither first nor last
LastDot(n) ==
    LET ks == {k \in 2..(Len(n) - 1) : n[k] = "."}
    IN  IF ks = {} THEN 0 ELSE CHOOSE k \in ks : \A j \in ks : j <= k

\* PurePath.with_suffix(ext): the old suffix, when there is one, is replaced
with_suffix(p, ext) ==
    IF LastDot(p.name) = 0
    THEN Path(p.dir, p.name \o ext)
    ELSE Path(p.dir, SubSeq(p.name, 1, LastDot(p.name) - 1) \o ext)

(***************************************************************************)
(* fnmatch, as Path.glob applies it to the names of a directory: "*" is    *)
(* any run, "?" any one character, "[...]" a character class ("[" without  *)
(* a closing "]" is literal).                                              *)
(***************************************************************************)
RECURSIVE ScanClass(_, _)
ScanClass(p, j) ==
    IF j > Len(p) THEN 0 ELSE IF p[j] = "]" THEN j ELSE ScanClass(p, j + 1)

\* p starts with "[": the index of the "]" closing the class, 0 when none
ClassEnd(p) ==
    LET j1 == IF Len(p) >= 2 /\ p[2] = "!" THEN 3 ELSE 2
        j2 == IF j1 <= Len(p) /\ p[j1] = "]" THEN j1 + 1 ELSE j1
    IN  ScanClass(p, j2)

InClass(p, c) ==
    LET neg == p[2] = "!"
        from == IF neg THEN 3 ELSE 2
        members == {p[k] : k \in from..(ClassEnd(p) - 1)}
    IN  IF neg THEN c \notin members ELSE c \in members

RECURSIVE fnmatch(_, _)
fnmatch(s, p) ==
    IF p = <<>> THEN s = <<>>
    ELSE IF Head(p) = "*"
         THEN fnmatch(s, Tail(p)) \/ (s # <<>> /\ fnmatch(Tail(s), p))
    ELSE IF s = <<>> THEN FALSE
    ELSE IF Head(p) = "?" THEN fnmatch(Tail(s), Tail(p))
    ELSE IF Head(p) = "[" /\ ClassEnd(p) # 0
         THEN InClass(p, Head(s)) /\ fnmatch(Tail(s), SubSeq(p, ClassEnd(p) + 1, Len(p)))
    ELSE Head(s) = Head(p) /\ fnmatch(Tail(s), Tail(p))

(***************************************************************************)
(* find_existing_file.  The result of the directory listing depends on the *)
(* enumeration order, so the operator gives every result the call can      *)
(* return: records of the path found and of the branch that found it.      *)
(***************************************************************************)
ProbeExts ==
    << <<".", "m", "k", "v">>, <<".", "m", "p", "4">>, <<".", "w", "e", "b", "m">>,
       <<".", "m", "4", "v">>, <<".", "m", "o", "v">> >>

Found(p, via) == [path |-> p, via |-> via]

ProbeHits(files, base_no_ext) ==
    {k \in 1..Len(ProbeExts) :
        LET p == with_suffix(base_no_ext, ProbeExts[k])
        IN  p \in DOMAIN files /\ ~EndsWith(p.name, PartSuffix)}

GlobHits(files, base_no_ext) ==
    {p \in DOMAIN files :
        /\ p.dir = base_no_ext.dir
        /\ fnmatch(p.name, base_no_ext.name \o <<".", "*">>)
        /\ ~EndsWith(p.name, PartSuffix)
        /\ files[p].kind = "file"}

find_existing_file(files, base_no_ext) ==
    LET hits == ProbeHits(files, base_no_ext)
    IN  IF hits # {}
        THEN LET k == CHOOSE k \in hits : \A j \in hits : k <= j
             IN  {Found(with_suffix(base_no_ext, ProbeExts[k]), "probe")}
        ELSE IF GlobHits(files, base_no_ext) # {}
        THEN {Found(p, "glob") : p \in GlobHits(files, base_no_ext)}
        ELSE {Found(NoPath, "none")}

(***************************************************************************)
(* needs_redownload, given what find_existing_file returned and what       *)
(* existing.stat() gave: st.ok is FALSE when stat raised OSError.          *)
(***************************************************************************)
Stat(ok, size) == [ok |-> ok, size |-> size]

\* mutant: a file of exactly the threshold size is fetched again
needs_redownload_StrictlyGreater(existing, st) ==
    IF existing = NoPath THEN <<TRUE, NoPath>>
    ELSE IF ~st.ok THEN <<TRUE, existing>>
    ELSE IF st.size > REDOWNLOAD_SIZE_BYTES THEN <<FALSE, existing>>
    ELSE <<TRUE, existing>>

\* mutant: the comparison is inverted
needs_redownload_Inverted(existing, st) ==
    IF existing = NoPath THEN <<TRUE, NoPath>>
    ELSE IF ~st.ok THEN <<TRUE, existing>>
    ELSE IF st.size < REDOWNLOAD_SIZE_BYTES THEN <<FALSE, existing>>
    ELSE <<TRUE, existing>>

needs_redownload(existing, st) ==
    IF existing = NoPath THEN <<TRUE, NoPath>>
    ELSE IF ~st.ok THEN <<TRUE, existing>>
    ELSE IF st.size >= REDOWNLOAD_SIZE_BYTES THEN <<FALSE, existing>>
    ELSE <<TRUE, existing>>

(***************************************************************************)
(* State.                                                                  *)
(*   csv            the records of the CSV file, as DictReader gives them  *)
(*   rows           list(read_rows(csv_path))                              *)
(*   fs, dirs       the files and the directories under base_out           *)
(*   run            the invocation of the program (the catalog and the     *)
(*                  filesystem are kept from one invocation to the next)   *)
(*   idx, pc        the row of the loop of main and the position in it     *)
(*   redownload, existing_path   the locals of main                        *)
(*   log            what main did in this invocation, in order             *)
(*   prevGood       the previous invocation fetched every row and every    *)
(*                  fetch left a completed file of the threshold size      *)
(*   exitCode       the argument of sys.exit, -1 while none                *)
(*   code, season, spc   the input, result and position of the season      *)
(*                  derivation on its own                                  *)
(***************************************************************************)
VARIABLES csv, rows, fs, dirs, run, idx, pc, redownload, existing_path,
          log, prevGood, exitCode, code, season, spc

mvars == <<csv, rows, fs, dirs, run, idx, pc, redownload, existing_path,
           log, prevGood, exitCode>>

svars == <<code, season, spc>>

vars == <<mvars, svars>>

(***************************************************************************)
(* The inputs: the catalog and the files found under base_out.             *)
(***************************************************************************)
Row(ep, title, url) == [ep |-> ep, title |-> title, url |-> url]

EpisodeCode == <<"S", "1", "E", "1">>

Url == <<"u">>

\* two titles that sanitize to one name, and a title with a "."
RawRows ==
    { Row(EpisodeCode, <<"A", "?">>, Url),
      Row(EpisodeCode, <<"A", ":">>, Url),
      Row(EpisodeCode, <<"A", "?", ".", "B">>, Url) }

\* a title with a "." and a "[...]", and a record without a link
RerunRows ==
    RawRows \cup { Row(EpisodeCode, <<"A", "?", ".", "[", "B", "]">>, Url),
                   Row(EpisodeCode, <<"A", "?">>, <<" ">>) }

\* a catalog lists up to MaxRows records, no record twice
CatalogsOf(R) ==
    {c \in UNION {[1..n -> R] : n \in 0..MaxRows} :
        \A i, j \in 1..Len(c) : c[i] = c[j] => i = j}

Catalogs == CatalogsOf(RawRows)

RerunCatalogs == CatalogsOf(RerunRows)

\* read_rows: the fields stripped, the rows with an empty field dropped
RECURSIVE read_rows(_)
read_rows(records) ==
    IF records = <<>> THEN <<>>
    ELSE LET r == Head(records)
             ep == Strip(r.ep)
             title == Strip(r.title)
             url == Strip(r.url)
         IN  IF ep # <<>> /\ title # <<>> /\ url # <<>>
             THEN <<Row(ep, title, url)>> \o read_rows(Tail(records))
             ELSE read_rows(Tail(records))

\* main, lines 154-163: the season directory and the path without extension
SeasonDir(row) == <<"S", "e", "a", "s", "o", "n", " ">> \o season_from_episode(row.ep)

FilenameNoExt(row) ==
    sanitize_filename(row.ep) \o <<" ", "-", " ">> \o sanitize_filename(row.title)

BaseNoExt(row) == Path(SeasonDir(row), FilenameNoExt(row))

Sizes == {REDOWNLOAD_SIZE_BYTES - 1, REDOWNLOAD_SIZE_BYTES}

Entry(kind, size) == [kind |-> kind, size |-> size]

FileEntries == {Entry("file", z) : z \in Sizes}

DirEntries == {Entry("dir", 0)}

ExtMkv == <<".">> \o MERGE_CONTAINER

ExtMp4 == <<".", "m", "p", "4">>

InitPaths ==
    {Path(SeasonDir(r), FilenameNoExt(r) \o suf) :
        r \in RawRows,
        suf \in {ExtMkv, ExtMkv \o PartSuffix}}

\* what a previous run or the user may have left: a partial download that
\* already reached the threshold, or a file or a directory of the final name
InitEntries(p) ==
    IF EndsWith(p.name, PartSuffix)
    THEN {Entry("file", REDOWNLOAD_SIZE_BYTES)}
    ELSE FileEntries \cup DirEntries

InitFilesystems ==
    {f \in UNION {[D -> FileEntries \cup DirEntries] :
                    D \in {X \in SUBSET InitPaths : Cardinality(X) <= MaxInitFiles}} :
        \A p \in DOMAIN f : f[p] \in InitEntries(p)}

(***************************************************************************)
(* The log of main.                                                        *)
(***************************************************************************)
\* An event of row i.  "decide": path and flag are what needs_redownload
\* returned, via the branch of find_existing_file, statOk and size what stat
\* gave.  "unlink": path is the file, flag whether it was removed.
\* "download": overwrite is the argument of download_one, flag whether the
\* call raised, statOk whether it left a completed file, path and size that
\* file.  "skip": path is the file kept.
Event(i, ev, p, via, st, flag, overwrite) ==
    [row |-> i, ev |-> ev, path |-> p, via |-> via, statOk |-> st.ok,
     size |-> st.size, flag |-> flag, overwrite |-> overwrite]

NoStat == Stat(FALSE, 0)

\* main has not read the catalog yet; the season derivation is not under test
MainStart ==
    /\ rows = <<>>
    /\ dirs = {p.dir : p \in DOMAIN fs}
    /\ run = 1
    /\ idx = 1
    /\ pc = "start"
    /\ redownload = FALSE
    /\ existing_path = NoPath
    /\ log = <<>>
    /\ prevGood = FALSE
    /\ exitCode = -1
    /\ code = <<>>
    /\ season = None
    /\ spc = "off"

Init ==
    /\ csv \in Catalogs
    /\ fs \in InitFilesystems
    /\ MainStart

\* main, lines 148-151
ReadCatalog ==
    /\ pc = "start"
    /\ rows' = read_rows(csv)
    /\ IF rows' = <<>>
       THEN pc' = "exited" /\ exitCode' = 2
       ELSE pc' = "loop" /\ exitCode' = exitCode
    /\ UNCHANGED <<csv, fs, dirs, run, idx, redownload, existing_path, log,
                   prevGood, svars>>

\* what existing.stat() can give for the path found
StatResults(p) ==
    IF p = NoPath THEN {NoStat}
    ELSE {Stat(TRUE, fs[p].size), Stat(FALSE, 0)}

\* main, lines 153-169: one row up to the decision
Reconcile ==
    /\ pc = "loop"
    /\ idx <= Len(rows)
    /\ dirs' = dirs \cup {SeasonDir(rows[idx])}
    /\ \E base_no_ext \in {BaseNoExt(rows[idx])} :
       \E found \in find_existing_file(fs, base_no_ext) :
       \E st \in StatResults(found.path) :
       \E r \in {needs_redownload(found.path, st)} :
          /\ redownload' = r[1]
          /\ existing_path' = r[2]
          /\ log' = Append(log, Event(idx, "decide", r[2], found.via, st, r[1], FALSE))
          /\ pc' = IF ~r[1] THEN "skip"
                   ELSE IF r[2] # NoPath /\ r[2] \in DOMAIN fs THEN "unlink"
                   ELSE "download"
    /\ UNCHANGED <<csv, rows, fs, run, idx, prevGood, exitCode, svars>>

\* mutant: the "continue" is missing and the row falls through to the fetch
SkipRow_FallThrough ==
    /\ pc = "skip"
    /\ log' = Append(log, Event(idx, "skip", existing_path, "none", NoStat, FALSE, FALSE))
    /\ pc' = "download"
    /\ UNCHANGED <<csv, rows, fs, dirs, run, idx, redownload, existing_path, prevGood,
                   exitCode, svars>>

\* main, lines 169-171
SkipRow ==
    /\ pc = "skip"
    /\ log' = Append(log, Event(idx, "skip", existing_path, "none", NoStat, FALSE, FALSE))
    /\ idx' = idx + 1
    /\ pc' = "loop"
    /\ UNCHANGED <<csv, rows, fs, dirs, run, redownload, existing_path, prevGood,
                   exitCode, svars>>

\* mutant: a deletion that raises ends the row, without the fetch
Unlink_FailureSkipsFetch ==
    /\ pc = "unlink"
    /\ \E removed \in IF fs[existing_path].kind = "file" THEN BOOLEAN ELSE {FALSE} :
        /\ fs' = IF removed
                 THEN [q \in DOMAIN fs \ {existing_path} |-> fs[q]]
                 ELSE fs
        /\ log' = Append(log, Event(idx, "unlink", existing_path, "none", NoStat, removed, FALSE))
        /\ IF removed
           THEN pc' = "download" /\ idx' = idx
           ELSE pc' = "loop" /\ idx' = idx + 1
    /\ UNCHANGED <<csv, rows, dirs, run, redownload, existing_path, prevGood,
                   exitCode, svars>>

\* main, lines 174-179: unlink removes a file, raises OSError on a directory
\* and can raise OSError on a file
Unlink ==
    /\ pc = "unlink"
    /\ \E removed \in IF fs[existing_path].kind = "file" THEN BOOLEAN ELSE {FALSE} :
        /\ fs' = IF removed
                 THEN [q \in DOMAIN fs \ {existing_path} |-> fs[q]]
                 ELSE fs
        /\ log' = Append(log, Event(idx, "unlink", existing_path, "none", NoStat, removed, FALSE))
    /\ pc' = "download"
    /\ UNCHANGED <<csv, rows, dirs, run, idx, redownload, existing_path, prevGood,
                   exitCode, svars>>

(***************************************************************************)
(* download_one(url, outtmpl, fmt, overwrite=True): what the call leaves   *)
(* at outtmpl.  It can raise; with "ignoreerrors" it can return having     *)
(* written nothing or an in-progress file; it can write the completed file *)
(* with the merge container's extension or the extension of a single       *)
(* format.                                                                 *)
(***************************************************************************)
Outcome(raised, made, ext, size) ==
    [raised |-> raised, made |-> made, ext |-> ext, size |-> size]

DownloadOutcomes ==
    {Outcome(TRUE, "none", <<>>, 0)}
    \cup {Outcome(FALSE, "part", ExtMkv \o PartSuffix, REDOWNLOAD_SIZE_BYTES - 1)}
    \cup {Outcome(FALSE, "file", ExtMkv, z) : z \in Sizes}
    \cup {Outcome(FALSE, "file", ExtMp4, REDOWNLOAD_SIZE_BYTES)}

Target(outtmpl, o) == Path(outtmpl.dir, outtmpl.name \o o.ext)

\* the call leaves a completed file: nothing is written over a directory,
\* and an existing file is kept unless "overwrites" is set
Completes(files, outtmpl, o, overwrite) ==
    /\ o.made = "file"
    /\ Target(outtmpl, o) \in DOMAIN files =>
          /\ files[Target(outtmpl, o)].kind = "file"
          /\ overwrite

Write(files, p, e) == [q \in DOMAIN files \cup {p} |-> IF q = p THEN e ELSE files[q]]

download_one(files, outtmpl, o, overwrite) ==
    IF o.made = "part"
    THEN IF Target(outtmpl, o) \in DOMAIN files /\ files[Target(outtmpl, o)].kind = "dir"
         THEN files
         ELSE Write(files, Target(outtmpl, o), Entry("file", o.size))
    ELSE IF Completes(files, outtmpl, o, overwrite)
    THEN Write(files, Target(outtmpl, o), Entry("file", o.size))
    ELSE files

\* mutant: an exception of download_one is not caught and ends the program
Download_RaisePropagates ==
    /\ pc = "download"
    /\ \E o \in DownloadOutcomes :
        LET outtmpl == BaseNoExt(rows[idx])
            done == Completes(fs, outtmpl, o, TRUE)
        IN  /\ fs' = download_one(fs, outtmpl, o, TRUE)
            /\ log' = Append(log, Event(idx, "download",
                                        IF done THEN Target(outtmpl, o) ELSE NoPath,
                                        "none", Stat(done, IF done THEN o.size ELSE 0),
                                        o.raised, TRUE))
            /\ IF o.raised
               THEN pc' = "crashed" /\ idx' = idx
               ELSE pc' = "loop" /\ idx' = idx + 1
    /\ UNCHANGED <<csv, rows, dirs, run, redownload, existing_path, prevGood,
                   exitCode, svars>>

\* main, lines 181-186: the fetch with overwrite=True, its exception caught
Download ==
    /\ pc = "download"
    /\ \E o \in DownloadOutcomes :
        LET outtmpl == BaseNoExt(rows[idx])
            done == Completes(fs, outtmpl, o, TRUE)
        IN  /\ fs' = download_one(fs, outtmpl, o, TRUE)
            /\ log' = Append(log, Event(idx, "download",
                                        IF done THEN Target(outtmpl, o) ELSE NoPath,
                                        "none", Stat(done, IF done THEN o.size ELSE 0),
                                        o.raised, TRUE))
    /\ idx' = idx + 1
    /\ pc' = "loop"
    /\ UNCHANGED <<csv, rows, dirs, run, redownload, existing_path, prevGood,
                   exitCode, svars>>

\* every row was fetched and every fetch left a completed file of the
\* threshold size
RunGood ==
    \A i \in 1..Len(rows) :
        \E k \in 1..Len(log) :
            /\ log[k].row = i
            /\ log[k].ev = "download"
            /\ log[k].statOk
            /\ log[k].size >= REDOWNLOAD_SIZE_BYTES

\* main, line 188
AllDone ==
    /\ pc = "loop"
    /\ idx > Len(rows)
    /\ pc' = "done"
    /\ exitCode' = 0
    /\ UNCHANGED <<csv, rows, fs, dirs, run, idx, redownload, existing_path, log,
                   prevGood, svars>>

\* the program is run again on the same catalog and the files it left
RunAgain ==
    /\ pc = "done"
    /\ run < MaxRuns
    /\ run' = run + 1
    /\ prevGood' = RunGood
    /\ idx' = 1
    /\ pc' = "start"
    /\ log' = <<>>
    /\ rows' = <<>>
    /\ redownload' = FALSE
    /\ existing_path' = NoPath
    /\ exitCode' = -1
    /\ UNCHANGED <<csv, fs, dirs, svars>>

Next ==
    \/ ReadCatalog
    \/ Reconcile
    \/ SkipRow
    \/ Unlink
    \/ Download
    \/ AllDone

Spec == Init /\ [][Next]_vars

(***************************************************************************)
(* The program run MaxRuns times in a row, the first time on an empty      *)
(* output directory.                                                       *)
(***************************************************************************)
RerunInit ==
    /\ csv \in RerunCatalogs
    /\ fs = <<>>
    /\ MainStart

RerunNext == Next \/ RunAgain

RerunSpec == RerunInit /\ [][RerunNext]_vars

(***************************************************************************)
(* One run into an empty output directory.  main runs one statement after  *)
(* the other and never waits: a step that can be taken is taken.           *)
(***************************************************************************)
FirstRunInit ==
    /\ csv \in RerunCatalogs
    /\ fs = <<>>
    /\ MainStart

FairSpec == FirstRunInit /\ [][Next]_vars /\ WF_vars(Next)

(***************************************************************************)
(* The season derivation on its own: every episode code up to MaxCodeLen   *)
(* characters of CodeAlphabet is an input.                                 *)
(***************************************************************************)
CodeAlphabet == {"S", "s", "E", "e", "0", "9", " ", "w"}

Codes == UNION {[1..n -> CodeAlphabet] : n \in 0..MaxCodeLen}

SeasonInit ==
    /\ code \in Codes
    /\ season = None
    /\ spc = "call"
    /\ csv = <<>>
    /\ rows = <<>>
    /\ fs = <<>>
    /\ dirs = {}
    /\ run = 1
    /\ idx = 1
    /\ pc = "off"
    /\ redownload = FALSE
    /\ existing_path = NoPath
    /\ log = <<>>
    /\ prevGood = FALSE
    /\ exitCode = -1

SeasonCall ==
    /\ spc = "call"
    /\ season' = season_from_episode(code)
    /\ spc' = "returned"
    /\ UNCHANGED <<code, mvars>>

SeasonNext == SeasonCall

SeasonSpec == SeasonInit /\ [][SeasonNext]_vars

(***************************************************************************)
(* Reading the log.                                                        *)
(***************************************************************************)
EventsOf(i, kind) == {k \in 1..Len(log) : log[k].row = i /\ log[k].ev = kind}

RowEvents(i) == SelectSeq(log, LAMBDA e : e.row = i)

Kinds(evs) == [k \in 1..Len(evs) |-> evs[k].ev]

\* the rows of this invocation whose turn of the loop is over
Finished == {i \in 1..Len(rows) : i < idx}

\* the decision of row i: Skip, ReplaceThenFetch (an artifact whose size was
\* read and is below the threshold), FetchFresh (no artifact), or the size
\* could not be read
IsSkip(e) == e.ev = "decide" /\ ~e.flag

IsReplaceThenFetch(e) == e.ev = "decide" /\ e.flag /\ e.path # NoPath /\ e.statOk

IsFetchFresh(e) == e.ev = "decide" /\ e.flag /\ e.path = NoPath

IsSizeUnread(e) == e.ev = "decide" /\ e.path # NoPath /\ ~e.statOk

(***************************************************************************)
(* C1: needs_redownload decides every case: with no artifact located it    *)
(* returns (redownload, no artifact); with an artifact whose size was read *)
(* it returns Skip exactly when the size is at least 10,485,760 bytes and  *)
(* ReplaceThenFetch exactly when it is below; the decision of a row at the *)
(* head of the loop is always available (it never raises).                 *)
(***************************************************************************)
C1_DecisionTotalAtThreshold ==
    /\ \A k \in 1..Len(log) :
          log[k].ev = "decide" =>
             /\ log[k].via = "none" => IsFetchFresh(log[k])
             /\ (log[k].via # "none" /\ log[k].statOk) =>
                   /\ log[k].path # NoPath
                   /\ IsSkip(log[k]) <=> log[k].size >= 10485760
                   /\ IsReplaceThenFetch(log[k]) <=> log[k].size < 10485760
             /\ Cardinality({d \in {"skip", "replace", "fresh", "unread"} :
                    \/ d = "skip" /\ IsSkip(log[k])
                    \/ d = "replace" /\ IsReplaceThenFetch(log[k])
                    \/ d = "fresh" /\ IsFetchFresh(log[k])
                    \/ d = "unread" /\ IsSizeUnread(log[k])}) = 1
    /\ (pc = "loop" /\ idx <= Len(rows)) =>
          \A found \in find_existing_file(fs, BaseNoExt(rows[idx])) :
             \A st \in StatResults(found.path) :
                /\ needs_redownload(found.path, st)[1] \in BOOLEAN
                /\ needs_redownload(found.path, st)[2] \in {NoPath, found.path}

\* a file of exactly 10,485,760 bytes was skipped and one of 10,485,759 bytes
\* was marked for replacement
C1_Witness ==
    /\ \E k \in 1..Len(log) : IsSkip(log[k]) /\ log[k].size = 10485760
    /\ \E k \in 1..Len(log) : IsReplaceThenFetch(log[k]) /\ log[k].size = 10485759

(***************************************************************************)
(* C2: a row whose decision is Skip deletes nothing and fetches nothing:   *)
(* from the decision to the next row the files are unchanged, the only     *)
(* directory that can appear is the season directory of the row, the row   *)
(* gets no unlink and no download event, and the loop goes to the next row.*)
(***************************************************************************)
C2_SkipStep ==
    (pc = "skip" \/ pc' = "skip") =>
        /\ fs' = fs
        /\ dirs' = dirs \cup {SeasonDir(rows[idx])}
        /\ EventsOf(idx, "unlink") = {} /\ EventsOf(idx, "download") = {}
        /\ pc = "skip" => (pc' = "loop" /\ idx' = idx + 1 /\ dirs' = dirs)

C2_SkipTouchesNothing ==
    [][C2_SkipStep]_vars /\ [](\A i \in Finished :
                                  (\E k \in EventsOf(i, "decide") : IsSkip(log[k])) =>
                                      Kinds(RowEvents(i)) = <<"decide", "skip">>)

\* a file that was there before the run was skipped and the loop went on
C2_Witness ==
    /\ pc = "loop"
    /\ \E i \in Finished : \E k \in EventsOf(i, "skip") :
          /\ log[k].path \in DOMAIN fs
          /\ fs[log[k].path].size >= 10485760
          /\ EventsOf(i, "download") = {}

(***************************************************************************)
(* C4: no failure of a fetch ends the batch.  Whatever fetch calls raise,  *)
(* the rows are reconciled one after the other in catalog order, each one  *)
(* exactly once, a row starting only when the row before it is over, and   *)
(* the run reaches "All done".                                             *)
(***************************************************************************)
C4_InOrder ==
    /\ \A k \in 1..Len(log) :
          /\ log[k].row \in 1..Len(rows)
          /\ k > 1 => log[k - 1].row <= log[k].row
          /\ log[k].row <= idx
    /\ \A i \in Finished :
          /\ Cardinality(EventsOf(i, "decide")) = 1
          /\ RowEvents(i)[1].ev = "decide"
          /\ RowEvents(i)[Len(RowEvents(i))].ev \in {"skip", "download"}
    /\ pc = "done" => Finished = 1..Len(rows)
    /\ pc \in {"start", "loop", "skip", "unlink", "download", "done", "exited"}

C4_NoRowFailureIsFatal ==
    /\ []C4_InOrder
    /\ <>(pc = "done" \/ (pc = "exited" /\ rows = <<>>))

\* the fetch of the first row raised and the run went on to finish the second
C4_Witness ==
    /\ pc = "done"
    /\ Len(rows) = 2
    /\ \E k \in EventsOf(1, "download") : log[k].flag
    /\ EventsOf(2, "decide") # {}

(***************************************************************************)
(* C9: a row whose decision is ReplaceThenFetch attempts the deletion of   *)
(* the located artifact first and then issues exactly one fetch, with      *)
(* overwrite = true, whether the deletion succeeded or raised.             *)
(***************************************************************************)
C9_DeleteThenOneFetch ==
    /\ \A i \in Finished :
          \A k \in EventsOf(i, "decide") :
             IsReplaceThenFetch(log[k]) =>
                LET evs == RowEvents(i)
                IN  /\ Kinds(evs) = <<"decide", "unlink", "download">>
                    /\ evs[2].path = log[k].path
                    /\ evs[3].overwrite
    /\ pc = "download" =>
          \A k \in EventsOf(idx, "decide") :
             IsReplaceThenFetch(log[k]) => EventsOf(idx, "unlink") # {}

\* the deletion raised and the row was fetched all the same
C9_Witness ==
    \E i \in Finished :
        /\ \E k \in EventsOf(i, "decide") : IsReplaceThenFetch(log[k])
        /\ \E k \in EventsOf(i, "unlink") : ~log[k].flag
        /\ \E k \in EventsOf(i, "download") : log[k].overwrite

(***************************************************************************)
(* C5: when the size of the located artifact cannot be read, no deletion   *)
(* of it is attempted: every deletion attempt is on an artifact whose size *)
(* was read and found below 10,485,760 bytes.                              *)
(***************************************************************************)
C5_OnlyMeasuredSmallIsDeleted ==
    \A k \in 1..Len(log) :
        log[k].ev = "unlink" =>
            \E j \in EventsOf(log[k].row, "decide") :
                /\ j < k
                /\ log[j].path = log[k].path
                /\ log[j].statOk
                /\ log[j].size < 10485760

(***************************************************************************)
(* C6: every artifact the locator returns, by the probe of the fixed       *)
(* extensions or by the directory listing, is a regular file whose name    *)
(* does not end with ".part"; no ".part" file is ever deleted.             *)
(***************************************************************************)
C6_LocatedIsRegularNotPart ==
    /\ (pc \in {"skip", "unlink"} /\ existing_path # NoPath) =>
          /\ existing_path \in DOMAIN fs
          /\ fs[existing_path].kind = "file"
          /\ ~EndsWith(existing_path.name, PartSuffix)
    /\ \A k \in 1..Len(log) :
          log[k].ev = "unlink" => ~EndsWith(log[k].path.name, PartSuffix)

(***************************************************************************)
(* C8: the probe of the fixed extensions checks target_stem + ".mkv",      *)
(* ".mp4", ".webm", ".m4v", ".mov" in this order, also for a stem whose    *)
(* file name holds a ".", and returns the first that exists: the artifact  *)
(* it returns begins with the whole file name of the stem.                 *)
(***************************************************************************)
C8_ProbeAppendsExtension ==
    (pc \in {"skip", "unlink"} /\ log[Len(log)].via = "probe") =>
        LET stem == BaseNoExt(rows[idx])
            at(k) == Path(stem.dir, stem.name \o ProbeExts[k])
        IN  \E k \in 1..Len(ProbeExts) :
                /\ existing_path = at(k)
                /\ \A j \in 1..(k - 1) : at(j) \notin DOMAIN fs

(***************************************************************************)
(* C3: when a first run fetched every row and every fetch left a completed *)
(* file of at least 10,485,760 bytes at the row's stem, a second run over  *)
(* the same catalog and the files left decides Skip for every row: no      *)
(* fetch, no deletion.  (Stated for a second run in which every size is    *)
(* read: no stat call fails.)                                              *)
(***************************************************************************)
C3_SecondRunOnlySkips ==
    (run = 2 /\ prevGood /\ \A k \in 1..Len(log) : ~IsSizeUnread(log[k])) =>
        \A k \in 1..Len(log) :
            /\ log[k].ev \in {"decide", "skip"}
            /\ log[k].ev = "decide" => IsSkip(log[k])

(***************************************************************************)
(* C10, as claimed: of two rows with the same stem the later one is        *)
(* fetched to the same target and replaces what the earlier one produced.  *)
(***************************************************************************)
SameStem(i, j) == i < j /\ BaseNoExt(rows[i]) = BaseNoExt(rows[j])

LeftBy(i) == {log[k].path : k \in {n \in EventsOf(i, "download") : log[n].statOk}}

C10_LaterRowIsFetched ==
    \A i \in Finished : \A j \in Finished :
        (SameStem(i, j) /\ LeftBy(i) # {}) => EventsOf(j, "download") # {}

(***************************************************************************)
(* C10, amended: two rows with the same stem are handled with no           *)
(* mitigation, the later one reconciled against the files the earlier one  *)
(* left.  When the locator returns for the later row the file the earlier  *)
(* row fetched and its size reads at least 10,485,760 bytes, the later row *)
(* is skipped: nothing is deleted and nothing fetched for it.  When its    *)
(* size reads less, it is deleted and the later row fetched with           *)
(* overwrite = true to the same output template.  A later row is fetched   *)
(* exactly when its decision is not Skip.                                  *)
(***************************************************************************)
C10_LaterRowReconciledAgainstEarlier ==
    \A i \in Finished : \A j \in Finished :
        SameStem(i, j) =>
            \A k \in EventsOf(j, "decide") :
                /\ (log[k].path \in LeftBy(i) /\ log[k].statOk) =>
                      IF log[k].size >= 10485760
                      THEN Kinds(RowEvents(j)) = <<"decide", "skip">>
                      ELSE /\ Kinds(RowEvents(j)) = <<"decide", "unlink", "download">>
                           /\ RowEvents(j)[2].path = log[k].path
                           /\ RowEvents(j)[3].overwrite
                /\ IsSkip(log[k]) <=> EventsOf(j, "download") = {}
                /\ \A n \in EventsOf(j, "download") :
                      log[n].statOk =>
                         \E e \in {ExtMkv, ExtMp4} :
                            log[n].path = Path(BaseNoExt(rows[i]).dir,
                                               BaseNoExt(rows[i]).name \o e)

\* two rows of different titles and one stem: the second was skipped on the
\* file the first had fetched
C10_Witness ==
    \E i \in Finished : \E j \in Finished :
        /\ SameStem(i, j)
        /\ rows[i].title # rows[j].title
        /\ \E k \in EventsOf(j, "decide") :
              /\ log[k].path \in LeftBy(i)
              /\ log[k].size >= 10485760
        /\ EventsOf(j, "skip") # {}

(***************************************************************************)
(* C7.  The season of an episode code, stated on the text of the code.     *)
(***************************************************************************)
AllDigits(s) == \A k \in 1..Len(s) : s[k] \in Digit

Pad2(ds) == IF Len(ds) = 1 THEN <<"0">> \o ds ELSE ds

\* t is S, one or two digits, E, one or two digits (either case): the
\* positions the letter E can take
FullFormE(t) ==
    {k \in 3..4 :
        /\ k < Len(t)
        /\ Len(t) - k <= 2
        /\ t[1] \in {"S", "s"}
        /\ t[k] \in {"E", "e"}
        /\ AllDigits(SubSeq(t, 2, k - 1))
        /\ AllDigits(SubSeq(t, k + 1, Len(t)))}

\* the positions of a letter S that is followed, after at most `gap`
\* whitespace characters, by a digit
SeasonMarks(s, gap) ==
    {i \in 1..Len(s) :
        /\ s[i] \in {"S", "s"}
        /\ \E j \in (i + 1)..Len(s) :
              /\ j - i - 1 <= gap
              /\ s[j] \in Digit
              /\ \A m \in (i + 1)..(j - 1) : s[m] \in Whitespace}

\* the one or two digits that follow the first such letter S
MarkDigits(s, gap) ==
    LET i == CHOOSE x \in SeasonMarks(s, gap) : \A y \in SeasonMarks(s, gap) : x <= y
        j == CHOOSE x \in (i + 1)..Len(s) : s[x] \in Digit /\ \A m \in (i + 1)..(x - 1) : s[m] \notin Digit
    IN  IF j < Len(s) /\ s[j + 1] \in Digit THEN SubSeq(s, j, j + 1) ELSE SubSeq(s, j, j)

SeasonAsStated(s, gap) ==
    IF FullFormE(Strip(s)) # {}
    THEN Pad2(SubSeq(Strip(s), 2, (CHOOSE k \in FullFormE(Strip(s)) : TRUE) - 1))
    ELSE IF SeasonMarks(s, gap) # {} THEN Pad2(MarkDigits(s, gap))
    ELSE <<"0", "0">>

(***************************************************************************)
(* C7, as claimed: season_from_episode returns two decimal digits: the     *)
(* padded season of the trimmed code when it has the full form, otherwise  *)
(* the padded number at the first letter S immediately followed by one or  *)
(* two digits, otherwise "00".                                             *)
(***************************************************************************)
C7_SeasonImmediatelyAfterS ==
    spc = "returned" =>
        /\ Len(season) = 2 /\ AllDigits(season)
        /\ season = SeasonAsStated(code, 0)

(***************************************************************************)
(* C7, amended: as claimed, but the fallback takes the first letter S that *)
(* is followed, after any run of whitespace (possibly empty), by a digit,  *)
(* and pads the one or two digits found there.                             *)
(***************************************************************************)
C7_SeasonAfterSAndWhitespace ==
    spc = "returned" =>
        /\ Len(season) = 2 /\ AllDigits(season)
        /\ season = SeasonAsStated(code, Len(code))

\* "S 9": whitespace between the letter and the digit
C7_Witness ==
    /\ spc = "returned"
    /\ code = <<"s", " ", "9">>
    /\ season = <<"0", "9">>

====
